---- MODULE Spec2Model ----
(***************************************************************************)
(* A model of the CV anonymiser's request core (src/lambda/app.py): the    *)
(* rules cache, the redaction engine, the audit committer and the two      *)
(* HTTP handlers.                                                          *)
(*                                                                         *)
(* A Python str is the sequence of its code points (ord of each            *)
(* character), so that the two regular expressions, str.strip, json.loads  *)
(* and the sentinels are modelled character by character, over all of      *)
(* Unicode.  Str writes a str of printable ASCII characters.               *)
(***************************************************************************)
EXTENDS Integers, Sequences, FiniteSets, TLC

(***************************************************************************)
(* Bounds of the model.                                                    *)
(***************************************************************************)
\* the longest text of the redaction specification, in fragments
MaxFrags == 4

\* the clock of the service runs from Epoch to Epoch + MaxElapsed, in seconds
\* since 1970: a time of the years in which the function's runtime exists
Epoch == 1700000000

MaxElapsed == 65

\* the number of requests that arrive
MaxRequests == 2

\* the most frames the server has on the stack when it calls the handler
MaxServerFrames == 4

(***************************************************************************)
(* The state.  The process: the rules cache and its load time, and the     *)
(* table name and the origin it was configured with.  Its surroundings:    *)
(* the clock and the audit table.                                          *)
(* The handler runs statement by statement and the requests interleave     *)
(* (a plain def, which the framework runs on a thread pool; nothing in     *)
(* app.py locks the cache): `inv` holds, for each thread of the pool, the  *)
(* position, locals and outcome of its request (start, now and audit_at    *)
(* are its readings of the clock), `writers` the requests that last        *)
(* assigned the cache slot and its load time and the time of that last     *)
(* assignment, `served` the number of requests that have arrived.          *)
(* The redaction specification has its own variables: a text, a rule list, *)
(* and the results of a first and a second pass.                           *)
(***************************************************************************)
VARIABLES rules_cache, rules_cache_loaded_at, audit_table_name, frontend_origin,
          clock, table,
          inv, writers, served,
          in_text, in_redact, pass, res1, res2

(***************************************************************************)
(* Characters.                                                             *)
(***************************************************************************)
\* U+0020 .. U+005F in order
AsciiUpTo5F ==
    <<" ", "!", "\"", "#", "$", "%", "&", "'", "(", ")", "*", "+", ",", "-",
      ".", "/", "0", "1", "2", "3", "4", "5", "6", "7", "8", "9", ":", ";",
      "<", "=", ">", "?", "@", "A", "B", "C", "D", "E", "F", "G", "H", "I",
      "J", "K", "L", "M", "N", "O", "P", "Q", "R", "S", "T", "U", "V", "W",
      "X", "Y", "Z", "[", "\\", "]", "^", "_">>

\* U+0061 .. U+007E in order (SANY has no string for U+0060)
AsciiFrom61 ==
    <<"a", "b", "c", "d", "e", "f", "g", "h", "i", "j", "k", "l", "m", "n",
      "o", "p", "q", "r", "s", "t", "u", "v", "w", "x", "y", "z", "{", "|",
      "}", "~">>

IndexIn(cs, c) == CHOOSE i \in 1..Len(cs) : cs[i] = c

\* ord(c)
Ord ==
    [c \in {AsciiUpTo5F[i] : i \in 1..Len(AsciiUpTo5F)}
              \cup {AsciiFrom61[i] : i \in 1..Len(AsciiFrom61)} \cup {"\t", "\n", "\r"} |->
        CASE c = "\t" -> 9
          [] c = "\n" -> 10
          [] c = "\r" -> 13
          [] \E i \in 1..Len(AsciiUpTo5F) : AsciiUpTo5F[i] = c -> 31 + IndexIn(AsciiUpTo5F, c)
          [] OTHER -> 96 + IndexIn(AsciiFrom61, c)]

\* the str with the characters cs
Str(cs) == [i \in 1..Len(cs) |-> Ord[cs[i]]]

RangesOf(ranges) == UNION {r[1]..r[2] : r \in ranges}

(***************************************************************************)
(* Character classes of the two patterns (Python's re on str, Unicode      *)
(* 14.0 as in the Python 3.11 runtime of the function): \d is every        *)
(* decimal digit, \s every whitespace character and \w every alphanumeric  *)
(* character and the underscore, each as ranges of code points.            *)
(***************************************************************************)
\* \d
DigitRanges ==
    {<<48, 57>>, <<1632, 1641>>, <<1776, 1785>>, <<1984, 1993>>,
     <<2406, 2415>>, <<2534, 2543>>, <<2662, 2671>>, <<2790, 2799>>,
     <<2918, 2927>>, <<3046, 3055>>, <<3174, 3183>>, <<3302, 3311>>,
     <<3430, 3439>>, <<3558, 3567>>, <<3664, 3673>>, <<3792, 3801>>,
     <<3872, 3881>>, <<4160, 4169>>, <<4240, 4249>>, <<6112, 6121>>,
     <<6160, 6169>>, <<6470, 6479>>, <<6608, 6617>>, <<6784, 6793>>,
     <<6800, 6809>>, <<6992, 7001>>, <<7088, 7097>>, <<7232, 7241>>,
     <<7248, 7257>>, <<42528, 42537>>, <<43216, 43225>>, <<43264, 43273>>,
     <<43472, 43481>>, <<43504, 43513>>, <<43600, 43609>>, <<44016, 44025>>,
     <<65296, 65305>>, <<66720, 66729>>, <<68912, 68921>>, <<69734, 69743>>,
     <<69872, 69881>>, <<69942, 69951>>, <<70096, 70105>>, <<70384, 70393>>,
     <<70736, 70745>>, <<70864, 70873>>, <<71248, 71257>>, <<71360, 71369>>,
     <<71472, 71481>>, <<71904, 71913>>, <<72016, 72025>>, <<72784, 72793>>,
     <<73040, 73049>>, <<73120, 73129>>, <<92768, 92777>>, <<92864, 92873>>,
     <<93008, 93017>>, <<120782, 120831>>, <<123200, 123209>>,
     <<123632, 123641>>, <<125264, 125273>>, <<130032, 130041>>}

Digits == RangesOf(DigitRanges)

\* 0-9
AsciiDigits == Ord["0"]..Ord["9"]

\* A-Za-z
Letters == (Ord["A"]..Ord["Z"]) \cup (Ord["a"]..Ord["z"])

\* \s, and what str.strip() strips
WhitespaceRanges ==
    {<<9, 13>>, <<28, 32>>, <<133, 133>>, <<160, 160>>, <<5760, 5760>>,
     <<8192, 8202>>, <<8232, 8233>>, <<8239, 8239>>, <<8287, 8287>>,
     <<12288, 12288>>}

Whitespace == RangesOf(WhitespaceRanges)

\* \w : what \b tells apart from everything else
WordRanges ==
    {<<48, 57>>, <<65, 90>>, <<95, 95>>, <<97, 122>>, <<170, 170>>,
     <<178, 179>>, <<181, 181>>, <<185, 186>>, <<188, 190>>, <<192, 214>>,
     <<216, 246>>, <<248, 705>>, <<710, 721>>, <<736, 740>>, <<748, 748>>,
     <<750, 750>>, <<880, 884>>, <<886, 887>>, <<890, 893>>, <<895, 895>>,
     <<902, 902>>, <<904, 906>>, <<908, 908>>, <<910, 929>>, <<931, 1013>>,
     <<1015, 1153>>, <<1162, 1327>>, <<1329, 1366>>, <<1369, 1369>>,
     <<1376, 1416>>, <<1488, 1514>>, <<1519, 1522>>, <<1568, 1610>>,
     <<1632, 1641>>, <<1646, 1647>>, <<1649, 1747>>, <<1749, 1749>>,
     <<1765, 1766>>, <<1774, 1788>>, <<1791, 1791>>, <<1808, 1808>>,
     <<1810, 1839>>, <<1869, 1957>>, <<1969, 1969>>, <<1984, 2026>>,
     <<2036, 2037>>, <<2042, 2042>>, <<2048, 2069>>, <<2074, 2074>>,
     <<2084, 2084>>, <<2088, 2088>>, <<2112, 2136>>, <<2144, 2154>>,
     <<2160, 2183>>, <<2185, 2190>>, <<2208, 2249>>, <<2308, 2361>>,
     <<2365, 2365>>, <<2384, 2384>>, <<2392, 2401>>, <<2406, 2415>>,
     <<2417, 2432>>, <<2437, 2444>>, <<2447, 2448>>, <<2451, 2472>>,
     <<2474, 2480>>, <<2482, 2482>>, <<2486, 2489>>, <<2493, 2493>>,
     <<2510, 2510>>, <<2524, 2525>>, <<2527, 2529>>, <<2534, 2545>>,
     <<2548, 2553>>, <<2556, 2556>>, <<2565, 2570>>, <<2575, 2576>>,
     <<2579, 2600>>, <<2602, 2608>>, <<2610, 2611>>, <<2613, 2614>>,
     <<2616, 2617>>, <<2649, 2652>>, <<2654, 2654>>, <<2662, 2671>>,
     <<2674, 2676>>, <<2693, 2701>>, <<2703, 2705>>, <<2707, 2728>>,
     <<2730, 2736>>, <<2738, 2739>>, <<2741, 2745>>, <<2749, 2749>>,
     <<2768, 2768>>, <<2784, 2785>>, <<2790, 2799>>, <<2809, 2809>>,
     <<2821, 2828>>, <<2831, 2832>>, <<2835, 2856>>, <<2858, 2864>>,
     <<2866, 2867>>, <<2869, 2873>>, <<2877, 2877>>, <<2908, 2909>>,
     <<2911, 2913>>, <<2918, 2927>>, <<2929, 2935>>, <<2947, 2947>>,
     <<2949, 2954>>, <<2958, 2960>>, <<2962, 2965>>, <<2969, 2970>>,
     <<2972, 2972>>, <<2974, 2975>>, <<2979, 2980>>, <<2984, 2986>>,
     <<2990, 3001>>, <<3024, 3024>>, <<3046, 3058>>, <<3077, 3084>>,
     <<3086, 3088>>, <<3090, 3112>>, <<3114, 3129>>, <<3133, 3133>>,
     <<3160, 3162>>, <<3165, 3165>>, <<3168, 3169>>, <<3174, 3183>>,
     <<3192, 3198>>, <<3200, 3200>>, <<3205, 3212>>, <<3214, 3216>>,
     <<3218, 3240>>, <<3242, 3251>>, <<3253, 3257>>, <<3261, 3261>>,
     <<3293, 3294>>, <<3296, 3297>>, <<3302, 3311>>, <<3313, 3314>>,
     <<3332, 3340>>, <<3342, 3344>>, <<3346, 3386>>, <<3389, 3389>>,
     <<3406, 3406>>, <<3412, 3414>>, <<3416, 3425>>, <<3430, 3448>>,
     <<3450, 3455>>, <<3461, 3478>>, <<3482, 3505>>, <<3507, 3515>>,
     <<3517, 3517>>, <<3520, 3526>>, <<3558, 3567>>, <<3585, 3632>>,
     <<3634, 3635>>, <<3648, 3654>>, <<3664, 3673>>, <<3713, 3714>>,
     <<3716, 3716>>, <<3718, 3722>>, <<3724, 3747>>, <<3749, 3749>>,
     <<3751, 3760>>, <<3762, 3763>>, <<3773, 3773>>, <<3776, 3780>>,
     <<3782, 3782>>, <<3792, 3801>>, <<3804, 3807>>, <<3840, 3840>>,
     <<3872, 3891>>, <<3904, 3911>>, <<3913, 3948>>, <<3976, 3980>>,
     <<4096, 4138>>, <<4159, 4169>>, <<4176, 4181>>, <<4186, 4189>>,
     <<4193, 4193>>, <<4197, 4198>>, <<4206, 4208>>, <<4213, 4225>>,
     <<4238, 4238>>, <<4240, 4249>>, <<4256, 4293>>, <<4295, 4295>>,
     <<4301, 4301>>, <<4304, 4346>>, <<4348, 4680>>, <<4682, 4685>>,
     <<4688, 4694>>, <<4696, 4696>>, <<4698, 4701>>, <<4704, 4744>>,
     <<4746, 4749>>, <<4752, 4784>>, <<4786, 4789>>, <<4792, 4798>>,
     <<4800, 4800>>, <<4802, 4805>>, <<4808, 4822>>, <<4824, 4880>>,
     <<4882, 4885>>, <<4888, 4954>>, <<4969, 4988>>, <<4992, 5007>>,
     <<5024, 5109>>, <<5112, 5117>>, <<5121, 5740>>, <<5743, 5759>>,
     <<5761, 5786>>, <<5792, 5866>>, <<5870, 5880>>, <<5888, 5905>>,
     <<5919, 5937>>, <<5952, 5969>>, <<5984, 5996>>, <<5998, 6000>>,
     <<6016, 6067>>, <<6103, 6103>>, <<6108, 6108>>, <<6112, 6121>>,
     <<6128, 6137>>, <<6160, 6169>>, <<6176, 6264>>, <<6272, 6276>>,
     <<6279, 6312>>, <<6314, 6314>>, <<6320, 6389>>, <<6400, 6430>>,
     <<6470, 6509>>, <<6512, 6516>>, <<6528, 6571>>, <<6576, 6601>>,
     <<6608, 6618>>, <<6656, 6678>>, <<6688, 6740>>, <<6784, 6793>>,
     <<6800, 6809>>, <<6823, 6823>>, <<6917, 6963>>, <<6981, 6988>>,
     <<6992, 7001>>, <<7043, 7072>>, <<7086, 7141>>, <<7168, 7203>>,
     <<7232, 7241>>, <<7245, 7293>>, <<7296, 7304>>, <<7312, 7354>>,
     <<7357, 7359>>, <<7401, 7404>>, <<7406, 7411>>, <<7413, 7414>>,
     <<7418, 7418>>, <<7424, 7615>>, <<7680, 7957>>, <<7960, 7965>>,
     <<7968, 8005>>, <<8008, 8013>>, <<8016, 8023>>, <<8025, 8025>>,
     <<8027, 8027>>, <<8029, 8029>>, <<8031, 8061>>, <<8064, 8116>>,
     <<8118, 8124>>, <<8126, 8126>>, <<8130, 8132>>, <<8134, 8140>>,
     <<8144, 8147>>, <<8150, 8155>>, <<8160, 8172>>, <<8178, 8180>>,
     <<8182, 8188>>, <<8304, 8305>>, <<8308, 8313>>, <<8319, 8329>>,
     <<8336, 8348>>, <<8450, 8450>>, <<8455, 8455>>, <<8458, 8467>>,
     <<8469, 8469>>, <<8473, 8477>>, <<8484, 8484>>, <<8486, 8486>>,
     <<8488, 8488>>, <<8490, 8493>>, <<8495, 8505>>, <<8508, 8511>>,
     <<8517, 8521>>, <<8526, 8526>>, <<8528, 8585>>, <<9312, 9371>>,
     <<9450, 9471>>, <<10102, 10131>>, <<11264, 11492>>, <<11499, 11502>>,
     <<11506, 11507>>, <<11517, 11517>>, <<11520, 11557>>, <<11559, 11559>>,
     <<11565, 11565>>, <<11568, 11623>>, <<11631, 11631>>, <<11648, 11670>>,
     <<11680, 11686>>, <<11688, 11694>>, <<11696, 11702>>, <<11704, 11710>>,
     <<11712, 11718>>, <<11720, 11726>>, <<11728, 11734>>, <<11736, 11742>>,
     <<11823, 11823>>, <<12293, 12295>>, <<12321, 12329>>, <<12337, 12341>>,
     <<12344, 12348>>, <<12353, 12438>>, <<12445, 12447>>, <<12449, 12538>>,
     <<12540, 12543>>, <<12549, 12591>>, <<12593, 12686>>, <<12690, 12693>>,
     <<12704, 12735>>, <<12784, 12799>>, <<12832, 12841>>, <<12872, 12879>>,
     <<12881, 12895>>, <<12928, 12937>>, <<12977, 12991>>, <<13312, 19903>>,
     <<19968, 42124>>, <<42192, 42237>>, <<42240, 42508>>, <<42512, 42539>>,
     <<42560, 42606>>, <<42623, 42653>>, <<42656, 42735>>, <<42775, 42783>>,
     <<42786, 42888>>, <<42891, 42954>>, <<42960, 42961>>, <<42963, 42963>>,
     <<42965, 42969>>, <<42994, 43009>>, <<43011, 43013>>, <<43015, 43018>>,
     <<43020, 43042>>, <<43056, 43061>>, <<43072, 43123>>, <<43138, 43187>>,
     <<43216, 43225>>, <<43250, 43255>>, <<43259, 43259>>, <<43261, 43262>>,
     <<43264, 43301>>, <<43312, 43334>>, <<43360, 43388>>, <<43396, 43442>>,
     <<43471, 43481>>, <<43488, 43492>>, <<43494, 43518>>, <<43520, 43560>>,
     <<43584, 43586>>, <<43588, 43595>>, <<43600, 43609>>, <<43616, 43638>>,
     <<43642, 43642>>, <<43646, 43695>>, <<43697, 43697>>, <<43701, 43702>>,
     <<43705, 43709>>, <<43712, 43712>>, <<43714, 43714>>, <<43739, 43741>>,
     <<43744, 43754>>, <<43762, 43764>>, <<43777, 43782>>, <<43785, 43790>>,
     <<43793, 43798>>, <<43808, 43814>>, <<43816, 43822>>, <<43824, 43866>>,
     <<43868, 43881>>, <<43888, 44002>>, <<44016, 44025>>, <<44032, 55203>>,
     <<55216, 55238>>, <<55243, 55291>>, <<63744, 64109>>, <<64112, 64217>>,
     <<64256, 64262>>, <<64275, 64279>>, <<64285, 64285>>, <<64287, 64296>>,
     <<64298, 64310>>, <<64312, 64316>>, <<64318, 64318>>, <<64320, 64321>>,
     <<64323, 64324>>, <<64326, 64433>>, <<64467, 64829>>, <<64848, 64911>>,
     <<64914, 64967>>, <<65008, 65019>>, <<65136, 65140>>, <<65142, 65276>>,
     <<65296, 65305>>, <<65313, 65338>>, <<65345, 65370>>, <<65382, 65470>>,
     <<65474, 65479>>, <<65482, 65487>>, <<65490, 65495>>, <<65498, 65500>>,
     <<65536, 65547>>, <<65549, 65574>>, <<65576, 65594>>, <<65596, 65597>>,
     <<65599, 65613>>, <<65616, 65629>>, <<65664, 65786>>, <<65799, 65843>>,
     <<65856, 65912>>, <<65930, 65931>>, <<66176, 66204>>, <<66208, 66256>>,
     <<66273, 66299>>, <<66304, 66339>>, <<66349, 66378>>, <<66384, 66421>>,
     <<66432, 66461>>, <<66464, 66499>>, <<66504, 66511>>, <<66513, 66517>>,
     <<66560, 66717>>, <<66720, 66729>>, <<66736, 66771>>, <<66776, 66811>>,
     <<66816, 66855>>, <<66864, 66915>>, <<66928, 66938>>, <<66940, 66954>>,
     <<66956, 66962>>, <<66964, 66965>>, <<66967, 66977>>, <<66979, 66993>>,
     <<66995, 67001>>, <<67003, 67004>>, <<67072, 67382>>, <<67392, 67413>>,
     <<67424, 67431>>, <<67456, 67461>>, <<67463, 67504>>, <<67506, 67514>>,
     <<67584, 67589>>, <<67592, 67592>>, <<67594, 67637>>, <<67639, 67640>>,
     <<67644, 67644>>, <<67647, 67669>>, <<67672, 67702>>, <<67705, 67742>>,
     <<67751, 67759>>, <<67808, 67826>>, <<67828, 67829>>, <<67835, 67867>>,
     <<67872, 67897>>, <<67968, 68023>>, <<68028, 68047>>, <<68050, 68096>>,
     <<68112, 68115>>, <<68117, 68119>>, <<68121, 68149>>, <<68160, 68168>>,
     <<68192, 68222>>, <<68224, 68255>>, <<68288, 68295>>, <<68297, 68324>>,
     <<68331, 68335>>, <<68352, 68405>>, <<68416, 68437>>, <<68440, 68466>>,
     <<68472, 68497>>, <<68521, 68527>>, <<68608, 68680>>, <<68736, 68786>>,
     <<68800, 68850>>, <<68858, 68899>>, <<68912, 68921>>, <<69216, 69246>>,
     <<69248, 69289>>, <<69296, 69297>>, <<69376, 69415>>, <<69424, 69445>>,
     <<69457, 69460>>, <<69488, 69505>>, <<69552, 69579>>, <<69600, 69622>>,
     <<69635, 69687>>, <<69714, 69743>>, <<69745, 69746>>, <<69749, 69749>>,
     <<69763, 69807>>, <<69840, 69864>>, <<69872, 69881>>, <<69891, 69926>>,
     <<69942, 69951>>, <<69956, 69956>>, <<69959, 69959>>, <<69968, 70002>>,
     <<70006, 70006>>, <<70019, 70066>>, <<70081, 70084>>, <<70096, 70106>>,
     <<70108, 70108>>, <<70113, 70132>>, <<70144, 70161>>, <<70163, 70187>>,
     <<70272, 70278>>, <<70280, 70280>>, <<70282, 70285>>, <<70287, 70301>>,
     <<70303, 70312>>, <<70320, 70366>>, <<70384, 70393>>, <<70405, 70412>>,
     <<70415, 70416>>, <<70419, 70440>>, <<70442, 70448>>, <<70450, 70451>>,
     <<70453, 70457>>, <<70461, 70461>>, <<70480, 70480>>, <<70493, 70497>>,
     <<70656, 70708>>, <<70727, 70730>>, <<70736, 70745>>, <<70751, 70753>>,
     <<70784, 70831>>, <<70852, 70853>>, <<70855, 70855>>, <<70864, 70873>>,
     <<71040, 71086>>, <<71128, 71131>>, <<71168, 71215>>, <<71236, 71236>>,
     <<71248, 71257>>, <<71296, 71338>>, <<71352, 71352>>, <<71360, 71369>>,
     <<71424, 71450>>, <<71472, 71483>>, <<71488, 71494>>, <<71680, 71723>>,
     <<71840, 71922>>, <<71935, 71942>>, <<71945, 71945>>, <<71948, 71955>>,
     <<71957, 71958>>, <<71960, 71983>>, <<71999, 71999>>, <<72001, 72001>>,
     <<72016, 72025>>, <<72096, 72103>>, <<72106, 72144>>, <<72161, 72161>>,
     <<72163, 72163>>, <<72192, 72192>>, <<72203, 72242>>, <<72250, 72250>>,
     <<72272, 72272>>, <<72284, 72329>>, <<72349, 72349>>, <<72368, 72440>>,
     <<72704, 72712>>, <<72714, 72750>>, <<72768, 72768>>, <<72784, 72812>>,
     <<72818, 72847>>, <<72960, 72966>>, <<72968, 72969>>, <<72971, 73008>>,
     <<73030, 73030>>, <<73040, 73049>>, <<73056, 73061>>, <<73063, 73064>>,
     <<73066, 73097>>, <<73112, 73112>>, <<73120, 73129>>, <<73440, 73458>>,
     <<73648, 73648>>, <<73664, 73684>>, <<73728, 74649>>, <<74752, 74862>>,
     <<74880, 75075>>, <<77712, 77808>>, <<77824, 78894>>, <<82944, 83526>>,
     <<92160, 92728>>, <<92736, 92766>>, <<92768, 92777>>, <<92784, 92862>>,
     <<92864, 92873>>, <<92880, 92909>>, <<92928, 92975>>, <<92992, 92995>>,
     <<93008, 93017>>, <<93019, 93025>>, <<93027, 93047>>, <<93053, 93071>>,
     <<93760, 93846>>, <<93952, 94026>>, <<94032, 94032>>, <<94099, 94111>>,
     <<94176, 94177>>, <<94179, 94179>>, <<94208, 100343>>,
     <<100352, 101589>>, <<101632, 101640>>, <<110576, 110579>>,
     <<110581, 110587>>, <<110589, 110590>>, <<110592, 110882>>,
     <<110928, 110930>>, <<110948, 110951>>, <<110960, 111355>>,
     <<113664, 113770>>, <<113776, 113788>>, <<113792, 113800>>,
     <<113808, 113817>>, <<119520, 119539>>, <<119648, 119672>>,
     <<119808, 119892>>, <<119894, 119964>>, <<119966, 119967>>,
     <<119970, 119970>>, <<119973, 119974>>, <<119977, 119980>>,
     <<119982, 119993>>, <<119995, 119995>>, <<119997, 120003>>,
     <<120005, 120069>>, <<120071, 120074>>, <<120077, 120084>>,
     <<120086, 120092>>, <<120094, 120121>>, <<120123, 120126>>,
     <<120128, 120132>>, <<120134, 120134>>, <<120138, 120144>>,
     <<120146, 120485>>, <<120488, 120512>>, <<120514, 120538>>,
     <<120540, 120570>>, <<120572, 120596>>, <<120598, 120628>>,
     <<120630, 120654>>, <<120656, 120686>>, <<120688, 120712>>,
     <<120714, 120744>>, <<120746, 120770>>, <<120772, 120779>>,
     <<120782, 120831>>, <<122624, 122654>>, <<123136, 123180>>,
     <<123191, 123197>>, <<123200, 123209>>, <<123214, 123214>>,
     <<123536, 123565>>, <<123584, 123627>>, <<123632, 123641>>,
     <<124896, 124902>>, <<124904, 124907>>, <<124909, 124910>>,
     <<124912, 124926>>, <<124928, 125124>>, <<125127, 125135>>,
     <<125184, 125251>>, <<125259, 125259>>, <<125264, 125273>>,
     <<126065, 126123>>, <<126125, 126127>>, <<126129, 126132>>,
     <<126209, 126253>>, <<126255, 126269>>, <<126464, 126467>>,
     <<126469, 126495>>, <<126497, 126498>>, <<126500, 126500>>,
     <<126503, 126503>>, <<126505, 126514>>, <<126516, 126519>>,
     <<126521, 126521>>, <<126523, 126523>>, <<126530, 126530>>,
     <<126535, 126535>>, <<126537, 126537>>, <<126539, 126539>>,
     <<126541, 126543>>, <<126545, 126546>>, <<126548, 126548>>,
     <<126551, 126551>>, <<126553, 126553>>, <<126555, 126555>>,
     <<126557, 126557>>, <<126559, 126559>>, <<126561, 126562>>,
     <<126564, 126564>>, <<126567, 126570>>, <<126572, 126578>>,
     <<126580, 126583>>, <<126585, 126588>>, <<126590, 126590>>,
     <<126592, 126601>>, <<126603, 126619>>, <<126625, 126627>>,
     <<126629, 126633>>, <<126635, 126651>>, <<127232, 127244>>,
     <<130032, 130041>>, <<131072, 173791>>, <<173824, 177976>>,
     <<177984, 178205>>, <<178208, 183969>>, <<183984, 191456>>,
     <<194560, 195101>>, <<196608, 201546>>}

WordChars == RangesOf(WordRanges)

\* [A-Za-z0-9._%+-]
EmailLocalChars ==
    Letters \cup AsciiDigits \cup {Ord["."], Ord["_"], Ord["%"], Ord["+"], Ord["-"]}

\* [A-Za-z0-9.-]
EmailDomainChars == Letters \cup AsciiDigits \cup {Ord["."], Ord["-"]}

\* [\d\s().-]
PhoneBodyChars == Digits \cup Whitespace \cup {Ord["("], Ord[")"], Ord["."], Ord["-"]}

EMAIL_SENTINEL ==
    Str(<<"[", "R", "E", "D", "A", "C", "T", "E", "D", "_", "E", "M", "A", "I", "L", "]">>)

PHONE_SENTINEL ==
    Str(<<"[", "R", "E", "D", "A", "C", "T", "E", "D", "_", "P", "H", "O", "N", "E", "]">>)

(***************************************************************************)
(* The matcher.  Positions are 1-based; a match is given by the position   *)
(* one past its last character, 0 meaning no match.                        *)
(***************************************************************************)
IsWordAt(s, i) == i >= 1 /\ i <= Len(s) /\ s[i] \in WordChars

\* \b between s[i-1] and s[i]
WordBoundary(s, i) == IsWordAt(s, i - 1) # IsWordAt(s, i)

\* the length of the longest run of characters of cls that starts at s[i]
RECURSIVE RunLen(_, _, _)
RunLen(s, i, cls) ==
    IF i <= Len(s) /\ s[i] \in cls THEN 1 + RunLen(s, i + 1, cls) ELSE 0

SetMax(S) == CHOOSE m \in S : \A n \in S : n <= m

\* \.[A-Za-z]{2,}\b tried at s[p]: one past the end of the longest top-level
\* segment that ends on a word boundary, or 0
EmailTldEnd(s, p) ==
    IF p <= Len(s) /\ s[p] = Ord["."]
    THEN LET run  == RunLen(s, p + 1, Letters)
             ends == {n \in 2..run : WordBoundary(s, p + 1 + n)}
         IN  IF ends = {} THEN 0 ELSE p + 1 + SetMax(ends)
    ELSE 0

\* \b[A-Za-z0-9._%+-]+@[A-Za-z0-9.-]+\.[A-Za-z]{2,}\b tried at s[i]: greedy, the
\* longest domain first, then the longest top-level segment
EmailMatchEnd(s, i) ==
    LET local == RunLen(s, i, EmailLocalChars)
        at    == i + local
        d     == at + 1
        dom   == RunLen(s, d, EmailDomainChars)
        ok    == {j \in 1..dom : EmailTldEnd(s, d + j) # 0}
    IN  IF /\ WordBoundary(s, i)
           /\ local >= 1
           /\ at <= Len(s)
           /\ s[at] = Ord["@"]
           /\ ok # {}
        THEN EmailTldEnd(s, d + SetMax(ok))
        ELSE 0

\* PhoneMatchEnd with a body of six or more characters ({6,} for {7,})
PhoneMatchEnd_ShortBody(s, i) ==
    LET first == IF i <= Len(s) /\ s[i] = Ord["+"] THEN i + 1 ELSE i
        body  == first + 1
        run   == RunLen(s, body, PhoneBodyChars)
        ok    == {k \in 6..run : /\ body + k <= Len(s)
                                 /\ s[body + k] \in Digits
                                 /\ WordBoundary(s, body + k + 1)}
    IN  IF /\ WordBoundary(s, i)
           /\ first <= Len(s)
           /\ s[first] \in Digits
           /\ ok # {}
        THEN body + SetMax(ok) + 1
        ELSE 0

\* \b(\+?\d[\d\s().-]{7,}\d)\b tried at s[i]: greedy, the longest body first
PhoneMatchEnd(s, i) ==
    LET first == IF i <= Len(s) /\ s[i] = Ord["+"] THEN i + 1 ELSE i
        body  == first + 1
        run   == RunLen(s, body, PhoneBodyChars)
        ok    == {k \in 7..run : /\ body + k <= Len(s)
                                 /\ s[body + k] \in Digits
                                 /\ WordBoundary(s, body + k + 1)}
    IN  IF /\ WordBoundary(s, i)
           /\ first <= Len(s)
           /\ s[first] \in Digits
           /\ ok # {}
        THEN body + SetMax(ok) + 1
        ELSE 0

\* re.sub: scan from the left, replace each match, go on after it
RECURSIVE SubEmailFrom(_, _)
SubEmailFrom(s, i) ==
    IF i > Len(s) THEN <<>>
    ELSE LET e == EmailMatchEnd(s, i)
         IN  IF e # 0 THEN EMAIL_SENTINEL \o SubEmailFrom(s, e)
             ELSE <<s[i]>> \o SubEmailFrom(s, i + 1)

RECURSIVE SubPhoneFrom(_, _)
SubPhoneFrom(s, i) ==
    IF i > Len(s) THEN <<>>
    ELSE LET e == PhoneMatchEnd(s, i)
         IN  IF e # 0 THEN PHONE_SENTINEL \o SubPhoneFrom(s, e)
             ELSE <<s[i]>> \o SubPhoneFrom(s, i + 1)

\* re.sub(..., count=1): the first match only
RECURSIVE SubFirstEmailFrom(_, _)
SubFirstEmailFrom(s, i) ==
    IF i > Len(s) THEN <<>>
    ELSE LET e == EmailMatchEnd(s, i)
         IN  IF e # 0 THEN EMAIL_SENTINEL \o SubSeq(s, e, Len(s))
             ELSE <<s[i]>> \o SubFirstEmailFrom(s, i + 1)

redact_email_FirstOnly(text) == SubFirstEmailFrom(text, 1)

redact_email(text) == SubEmailFrom(text, 1)

redact_phone(text) == SubPhoneFrom(text, 1)

(***************************************************************************)
(* Python values, as json.loads builds them and the handler uses them: a   *)
(* value has a type tag t; s holds the characters of a str and the literal *)
(* of a number or constant; items holds the elements of a list and, for a  *)
(* dict, its keys and values in turn (key, value, key, value, ...) in      *)
(* insertion order.                                                        *)
(***************************************************************************)
PyNone == [t |-> "none", items |-> <<>>, s |-> <<>>]

PyBool(lit) == [t |-> "bool", items |-> <<>>, s |-> lit]

PyInt(lit) == [t |-> "int", items |-> <<>>, s |-> lit]

PyFloat(lit) == [t |-> "float", items |-> <<>>, s |-> lit]

PyStr(cs) == [t |-> "str", items |-> <<>>, s |-> cs]

PyList(xs) == [t |-> "list", items |-> xs, s |-> <<>>]

PyDict(kvs) == [t |-> "dict", items |-> kvs, s |-> <<>>]

\* the positions of the keys of a dict
KeyIndexes(d) == {i \in 1..Len(d.items) : i % 2 = 1}

\* d.get(key, default), key a str
DictGet(d, key, default) ==
    IF \E i \in KeyIndexes(d) : d.items[i] = PyStr(key)
    THEN d.items[1 + CHOOSE i \in KeyIndexes(d) : d.items[i] = PyStr(key)]
    ELSE default

\* d[key] = value: a key the dict has keeps its place
DictSet(d, key, value) ==
    IF \E i \in KeyIndexes(d) : d.items[i] = key
    THEN LET at == CHOOSE i \in KeyIndexes(d) : d.items[i] = key
         IN  PyDict([d.items EXCEPT ![at + 1] = value])
    ELSE PyDict(d.items \o <<key, value>>)

\* bool(v) of None and of a dict
Truthy(v) == v.t = "dict" /\ v.items # <<>>

\* `x in v` raises TypeError for a v that is no container (None, a number, a bool)
InRaises(v) == v.t \notin {"list", "str", "dict"}

\* `x in v` for a list v: some element equals the str x
InList(x, v) == \E i \in 1..Len(v.items) : v.items[i] = PyStr(x)

\* `x in v` for a str v: x is a substring
InStr(x, v) ==
    \E k \in 0..(Len(v.s) - Len(x)) : SubSeq(v.s, k + 1, k + Len(x)) = x

\* `x in v` for a dict v: x is a key
InDict(x, v) == \E i \in KeyIndexes(v) : v.items[i] = PyStr(x)

\* `x in v` for a str x
In(x, v) ==
    CASE v.t = "list" -> InList(x, v)
      [] v.t = "str" -> InStr(x, v)
      [] v.t = "dict" -> InDict(x, v)
      [] OTHER -> FALSE

EMAIL == Str(<<"e", "m", "a", "i", "l">>)

PHONE == Str(<<"p", "h", "o", "n", "e">>)

(***************************************************************************)
(* _apply_redaction: email before phone, one 0/1 entry per rule applied.   *)
(* raised tells that the call ended in an exception.                       *)
(***************************************************************************)
RuleCounts(keys, ce, cp) == [k \in keys |-> IF k = "email" THEN ce ELSE cp]

NoCounts == RuleCounts({}, 0, 0)

\* counts whose phone entry compares with the text before the email rule
CountsOf_StaleBefore(keys, text, out1, out2) ==
    RuleCounts(keys, IF text = out1 THEN 0 ELSE 1, IF text = out2 THEN 0 ELSE 1)

\* counts[rule] = 0 if before == out else 1: text, out1 and out2 are the text
\* before the email rule, between the two rules and after the phone rule
CountsOf(keys, text, out1, out2) ==
    RuleCounts(keys, IF text = out1 THEN 0 ELSE 1, IF out1 = out2 THEN 0 ELSE 1)

apply_redaction(text, redact) ==
    LET Redacted(keys, out1, out2) ==
            [raised |-> FALSE, out |-> out2, counts |-> CountsOf(keys, text, out1, out2)]
        ApplyPhone(doEmail, doPhone, out1) ==
            Redacted((IF doEmail THEN {"email"} ELSE {})
                         \cup (IF doPhone THEN {"phone"} ELSE {}),
                     out1, IF doPhone THEN redact_phone(out1) ELSE out1)
        ApplyRules(doEmail, doPhone) ==
            ApplyPhone(doEmail, doPhone, IF doEmail THEN redact_email(text) ELSE text)
    IN  IF InRaises(redact)
        THEN [raised |-> TRUE, out |-> text, counts |-> NoCounts]
        ELSE ApplyRules(In(EMAIL, redact), In(PHONE, redact))

(***************************************************************************)
(* json.loads on a str: the decoder of the standard library (the C scanner *)
(* of CPython 3.11, the runtime of the function), strict.  A parse gives   *)
(* ok, the value and the position after it; a number keeps its literal.    *)
(* ok = FALSE stands for every exception: JSONDecodeError for a text that  *)
(* is no JSON, ValueError for an integer literal of more digits than int() *)
(* converts, RecursionError for arrays and objects nested deeper than the  *)
(* interpreter's stack has room for.                                       *)
(***************************************************************************)
\* sys.get_int_max_str_digits(): the digits int() converts
INT_MAX_STR_DIGITS == 4300

\* sys.getrecursionlimit(); the code never sets it
RECURSION_LIMIT == 1000

\* the frames of json.loads, JSONDecoder.decode and raw_decode
JSON_LOADS_FRAMES == 3

\* s[i], or -1 past the end
At(s, i) == IF i >= 1 /\ i <= Len(s) THEN s[i] ELSE -1

JsonWhitespace == {Ord[" "], Ord["\t"], Ord["\n"], Ord["\r"]}

\* the position after the JSON whitespace at s[i]
SkipWs(s, i) == i + RunLen(s, i, JsonWhitespace)

\* s[i..] starts with lit
StartsWith(s, i, lit) == i + Len(lit) - 1 <= Len(s) /\ SubSeq(s, i, i + Len(lit) - 1) = lit

Parsed(value, end) == [ok |-> TRUE, value |-> value, end |-> end]

ParseError == [ok |-> FALSE, value |-> PyNone, end |-> 0]

\* the first of two parses that is ok
FirstOk(p, q) == IF p.ok THEN p ELSE q

\* the value of a hexadecimal digit, or -1
HexVal(c) ==
    IF c \in AsciiDigits THEN c - Ord["0"]
    ELSE IF c \in Ord["a"]..Ord["f"] THEN c - Ord["a"] + 10
    ELSE IF c \in Ord["A"]..Ord["F"] THEN c - Ord["A"] + 10
    ELSE -1

\* the four hexadecimal digits at s[i], or -1
Hex4(s, i) ==
    LET Of(h) == IF \E k \in 1..4 : h[k] = -1 THEN -1
                 ELSE h[1] * 4096 + h[2] * 256 + h[3] * 16 + h[4]
    IN  Of([k \in 1..4 |-> HexVal(At(s, i + k - 1))])

\* the character of a one-letter escape, or -1
EscapeChar(c) ==
    CASE c = Ord["\""] -> Ord["\""]
      [] c = Ord["\\"] -> Ord["\\"]
      [] c = Ord["/"] -> Ord["/"]
      [] c = Ord["b"] -> 8
      [] c = Ord["f"] -> 12
      [] c = Ord["n"] -> Ord["\n"]
      [] c = Ord["r"] -> Ord["\r"]
      [] c = Ord["t"] -> Ord["\t"]
      [] OTHER -> -1

\* the character that the text at s[i], inside a string, stands for, and the
\* position after it: not ok for a control character, a bad escape and the end of
\* the text.  In \uXXXX\uXXXX a high and a low surrogate make one character.
StringChar(s, i) ==
    LET Char(ch, next) == [ok |-> ch # -1, ch |-> ch, next |-> next]
        Unicode(u, u2) ==
            IF u \in 55296..56319 /\ u2 \in 56320..57343
            THEN Char(65536 + (u - 55296) * 1024 + (u2 - 56320), i + 12)
            ELSE Char(u, i + 6)
    IN  IF At(s, i) < 32 THEN Char(-1, i)
        ELSE IF At(s, i) # Ord["\\"] THEN Char(At(s, i), i + 1)
        ELSE IF At(s, i + 1) = Ord["u"]
        THEN Unicode(Hex4(s, i + 2),
                     IF At(s, i + 6) = Ord["\\"] /\ At(s, i + 7) = Ord["u"]
                     THEN Hex4(s, i + 8) ELSE -1)
        ELSE Char(EscapeChar(At(s, i + 1)), i + 2)

\* a character in front of the rest of a string
Prepend(ch, rest) ==
    IF rest.ok THEN Parsed(<<ch>> \o rest.value, rest.end) ELSE ParseError

\* scanstring: the characters of the string whose opening quote is before s[i]
RECURSIVE ScanString(_, _)
ScanString(s, i) ==
    LET From(c) == IF c.ok THEN Prepend(c.ch, ScanString(s, c.next)) ELSE ParseError
    IN  IF At(s, i) = Ord["\""] THEN Parsed(<<>>, i + 1) ELSE From(StringChar(s, i))

\* NUMBER_RE, (-?(?:0|[1-9]\d*))(\.\d+)?([eE][-+]?\d+)?, at s[i]: the position
\* after the literal (i when there is none), and whether it has a fraction or an
\* exponent
ScanNumber(s, i) ==
    LET \* the integer part, whose digits start at s[j]; i when there is none
        IntPart(j) == IF At(s, j) = Ord["0"] THEN j + 1
                      ELSE IF At(s, j) \in AsciiDigits THEN j + RunLen(s, j, AsciiDigits)
                      ELSE i
        \* a part of run digits after a mark of markLen characters at s[at]
        Part(at, markLen, run) == IF run >= 1 THEN at + markLen + run ELSE at
        Frac(intEnd) ==
            Part(intEnd, 1,
                 IF At(s, intEnd) = Ord["."] THEN RunLen(s, intEnd + 1, AsciiDigits) ELSE 0)
        ExpAfter(fracEnd, markLen) ==
            Part(fracEnd, markLen,
                 IF At(s, fracEnd) \in {Ord["e"], Ord["E"]}
                 THEN RunLen(s, fracEnd + markLen, AsciiDigits) ELSE 0)
        Exp(fracEnd) ==
            ExpAfter(fracEnd, IF At(s, fracEnd + 1) \in {Ord["+"], Ord["-"]} THEN 2 ELSE 1)
        Number(intEnd, expEnd) ==
            IF intEnd = i THEN [end |-> i, float |-> FALSE]
            ELSE [end |-> expEnd, float |-> expEnd > intEnd]
        FromInt(intEnd) == Number(intEnd, Exp(Frac(intEnd)))
    IN  FromInt(IntPart(IF At(s, i) = Ord["-"] THEN i + 1 ELSE i))

JSON_NULL == Str(<<"n", "u", "l", "l">>)

JSON_TRUE == Str(<<"t", "r", "u", "e">>)

JSON_FALSE == Str(<<"f", "a", "l", "s", "e">>)

JSON_NAN == Str(<<"N", "a", "N">>)

JSON_INFINITY == Str(<<"I", "n", "f", "i", "n", "i", "t", "y">>)

JSON_NEG_INFINITY == Str(<<"-", "I", "n", "f", "i", "n", "i", "t", "y">>)

\* scan_once at a text that opens no string, object or array: null, true, false, a
\* number, NaN, Infinity, -Infinity.  An integer is converted by int(), which
\* refuses more than INT_MAX_STR_DIGITS digits; float() takes any number of them.
ScanLiteral(s, i) ==
    LET Constant(lit, t) ==
            IF StartsWith(s, i, lit)
            THEN Parsed(IF t = "none" THEN PyNone ELSE [PyNone EXCEPT !.t = t, !.s = lit],
                        i + Len(lit))
            ELSE ParseError
        DigitCount(num) == num.end - i - (IF At(s, i) = Ord["-"] THEN 1 ELSE 0)
        Number(num) ==
            IF num.end # i /\ (num.float \/ DigitCount(num) <= INT_MAX_STR_DIGITS)
            THEN Parsed([PyNone EXCEPT !.t = IF num.float THEN "float" ELSE "int",
                                       !.s = SubSeq(s, i, num.end - 1)], num.end)
            ELSE ParseError
    IN  FirstOk(Constant(JSON_NULL, "none"),
        FirstOk(Constant(JSON_TRUE, "bool"),
        FirstOk(Constant(JSON_FALSE, "bool"),
        FirstOk(Number(ScanNumber(s, i)),
        FirstOk(Constant(JSON_NAN, "float"),
        FirstOk(Constant(JSON_INFINITY, "float"),
                Constant(JSON_NEG_INFINITY, "float")))))))

RECURSIVE ScanOnce(_, _, _)
RECURSIVE ParseArrayFrom(_, _, _, _)
RECURSIVE ParseObjectFrom(_, _, _, _)

\* JSONArray after the opening bracket and the elements xs: a value at s[i], then
\* the closing bracket, or a comma and the next element.  room is the number of
\* arrays and objects that still fit inside this one.
ParseArrayFrom(s, i, xs, room) ==
    LET After(ys, next) ==
            IF At(s, next) = Ord["]"] THEN Parsed(PyList(ys), next + 1)
            ELSE IF At(s, next) = Ord[","] THEN ParseArrayFrom(s, SkipWs(s, next + 1), ys, room)
            ELSE ParseError
        Element(v) ==
            IF v.ok THEN After(Append(xs, v.value), SkipWs(s, v.end)) ELSE ParseError
    IN  Element(ScanOnce(s, i, room))

\* JSONObject after the opening brace and the pairs d: a key at s[i], a colon, a
\* value, then the closing brace, or a comma and the next pair
ParseObjectFrom(s, i, d, room) ==
    LET After(d2, next) ==
            IF At(s, next) = Ord["}"] THEN Parsed(d2, next + 1)
            ELSE IF At(s, next) = Ord[","] THEN ParseObjectFrom(s, SkipWs(s, next + 1), d2, room)
            ELSE ParseError
        Value(key, v) ==
            IF v.ok THEN After(DictSet(d, PyStr(key), v.value), SkipWs(s, v.end))
            ELSE ParseError
        Colon(key, colon) ==
            IF At(s, colon) = Ord[":"] THEN Value(key, ScanOnce(s, SkipWs(s, colon + 1), room))
            ELSE ParseError
        Key(key) == IF key.ok THEN Colon(key.value, SkipWs(s, key.end)) ELSE ParseError
    IN  IF At(s, i) = Ord["\""] THEN Key(ScanString(s, i + 1)) ELSE ParseError

\* scan_once: the value at s[i].  An array or an object takes one of the room
\* levels, an empty one too, and raises RecursionError when none is left.
ScanOnce(s, i, room) ==
    LET String(str) == IF str.ok THEN Parsed(PyStr(str.value), str.end) ELSE ParseError
        Object(first) ==
            IF room = 0 THEN ParseError
            ELSE IF At(s, first) = Ord["}"] THEN Parsed(PyDict(<<>>), first + 1)
            ELSE ParseObjectFrom(s, first, PyDict(<<>>), room - 1)
        Array(first) ==
            IF room = 0 THEN ParseError
            ELSE IF At(s, first) = Ord["]"] THEN Parsed(PyList(<<>>), first + 1)
            ELSE ParseArrayFrom(s, first, <<>>, room - 1)
    IN  IF At(s, i) = Ord["\""] THEN String(ScanString(s, i + 1))
        ELSE IF At(s, i) = Ord["{"] THEN Object(SkipWs(s, i + 1))
        ELSE IF At(s, i) = Ord["["] THEN Array(SkipWs(s, i + 1))
        ELSE ScanLiteral(s, i)

\* json.loads(val), called with frames frames on the stack.  With no room on the
\* stack for its own frames the call raises RecursionError, whatever the text.  A
\* text that starts with the byte order mark U+FEFF is refused; whitespace may
\* surround the value.  The arrays and objects that fit inside each other take one
\* level of the stack each, and the stack ends one below the limit.
json_loads(val, frames) ==
    LET Whole(v) == IF v.ok /\ SkipWs(val, v.end) = Len(val) + 1 THEN v ELSE ParseError
        Decode(used) ==
            IF used >= RECURSION_LIMIT \/ At(val, 1) = 65279 THEN ParseError
            ELSE Whole(ScanOnce(val, SkipWs(val, 1), RECURSION_LIMIT - 1 - used))
    IN  Decode(frames + JSON_LOADS_FRAMES)

(***************************************************************************)
(* Configuration of the process (module level of app.py).                  *)
(***************************************************************************)
RULES_CACHE_SECONDS == 60

(***************************************************************************)
(* time.time(): a float, the seconds since 1970.  From 2004 to 2038 the    *)
(* floats are 2^-22 seconds apart, so a reading is a whole number of       *)
(* seconds s and a number f of such ticks, and the differences of two      *)
(* readings and their products with 1000 are exact.                        *)
(***************************************************************************)
TICKS_PER_SECOND == 4194304

Time(s, f) == [s |-> s, f |-> f]

\* _rules_cache_loaded_at: float = 0.0
NEVER_LOADED == Time(0, 0)

\* the reading d after the reading t
TimeAfter(t, d) ==
    Time(t.s + d.s + (t.f + d.f) \div TICKS_PER_SECOND, (t.f + d.f) % TICKS_PER_SECOND)

\* t1 <= t2
NotAfter(t1, t2) == t1.s < t2.s \/ (t1.s = t2.s /\ t1.f <= t2.f)

\* (t2 - t1) < n, for a whole number n of seconds
LessThanSeconds(t1, t2, n) ==
    (t2.s - t1.s) < n \/ ((t2.s - t1.s) = n /\ t2.f < t1.f)

\* int(time.time())
IntSeconds(t) == t.s

\* int((end - start) * 1000) for end not before start and within the function's
\* timeout of it: the whole milliseconds in the ticks between the two, 1000 / 2^22
\* being 125 / 2^19
DurationMs(start, end) ==
    LET InMs(ticks, unit) == (ticks \div unit) * 125 + ((ticks % unit) * 125) \div unit
    IN  InMs((end.s - start.s) * TICKS_PER_SECOND + (end.f - start.f), TICKS_PER_SECOND \div 8)

\* timeout=Duration.seconds(10) of the function: a request that has not answered
\* by then is ended with its process
FUNCTION_TIMEOUT_SECONDS == 10

AUDIT_TTL_SECONDS == 7 * 24 * 60 * 60

SAFE_LOG_MAX_LEN == 120

\* os.getenv("SALT_FALLBACK", "demo-salt-change-me"); the stack does not set it
SALT_FALLBACK ==
    Str(<<"d", "e", "m", "o", "-", "s", "a", "l", "t", "-", "c", "h", "a",
          "n", "g", "e", "-", "m", "e">>)

\* FRONTEND_ORIGIN unset
ORIGIN_ANY == Str(<<"*">>)

\* FRONTEND_ORIGIN as cv_anonymiser_stack.py sets it
ORIGIN_STACK ==
    Str(<<"[", "h", "t", "t", "p", "s", ":", "/", "/", "d", "1", "1", "1",
          ".", "c", "l", "o", "u", "d", "f", "r", "o", "n", "t", ".", "n",
          "e", "t", "]", "h", "t", "t", "p", "s", ":", "/", "/", "d", "1",
          "1", "1", ".", "c", "l", "o", "u", "d", "f", "r", "o", "n", "t",
          ".", "n", "e", "t">>)

(***************************************************************************)
(* The rules document.                                                     *)
(***************************************************************************)
KEY_REDACT == Str(<<"r", "e", "d", "a", "c", "t">>)

KEY_SALT == Str(<<"s", "a", "l", "t">>)

\* _rules_cache = None
NoRules == PyNone

\* ["email", "phone"]
FallbackRedact == PyList(<<PyStr(EMAIL), PyStr(PHONE)>>)

\* {"redact": ["email", "phone"], "salt": SALT_FALLBACK}
FallbackRules ==
    PyDict(<<PyStr(KEY_REDACT), FallbackRedact, PyStr(KEY_SALT), PyStr(SALT_FALLBACK)>>)

\* rules.get("redact", ["email", "phone"]) and rules.get("salt", SALT_FALLBACK)
RedactOf(rules) == DictGet(rules, KEY_REDACT, FallbackRedact)

SaltOf(rules) == DictGet(rules, KEY_SALT, PyStr(SALT_FALLBACK))

(***************************************************************************)
(* The rules store (SSM): get_parameter raises, or gives the parameter     *)
(* value, a str.                                                           *)
(***************************************************************************)
STORE_UNAVAILABLE == [available |-> FALSE, value |-> <<>>]

Holding(val) == [available |-> TRUE, value |-> val]

VAL_STACK ==
    Str(<<"{", "\"", "r", "e", "d", "a", "c", "t", "\"", ":", "[", "\"", "e",
          "m", "a", "i", "l", "\"", ",", "\"", "p", "h", "o", "n", "e", "\"",
          "]", ",", "\"", "s", "a", "l", "t", "\"", ":", "\"", "d", "e", "m",
          "o", "-", "s", "a", "l", "t", "-", "c", "h", "a", "n", "g", "e",
          "-", "m", "e", "\"", "}">>)

VAL_EMAIL_ONLY ==
    Str(<<"{", "\"", "r", "e", "d", "a", "c", "t", "\"", ":", " ", "[", "\"",
          "e", "m", "a", "i", "l", "\"", "]", ",", " ", "\"", "s", "a", "l",
          "t", "\"", ":", " ", "\"", "s", "2", "\"", "}">>)

VAL_NOT_JSON ==
    Str(<<"r", "e", "d", "a", "c", "t", "=", "e", "m", "a", "i", "l">>)

VAL_ARRAY == Str(<<"[", "\"", "e", "m", "a", "i", "l", "\"", "]">>)

VAL_EMPTY_OBJECT == Str(<<"{", "}">>)

VAL_NO_SALT ==
    Str(<<"{", "\"", "r", "e", "d", "a", "c", "t", "\"", ":", " ", "[", "\"",
          "p", "h", "o", "n", "e", "\"", ",", " ", "\"", "n", "a", "m", "e",
          "\"", "]", "}">>)

VAL_REDACT_NUMBER ==
    Str(<<"{", "\"", "r", "e", "d", "a", "c", "t", "\"", ":", " ", "5", ",",
          " ", "\"", "s", "a", "l", "t", "\"", ":", " ", "\"", "s", "3",
          "\"", "}">>)

VAL_REDACT_STR ==
    Str(<<"{", "\"", "r", "e", "d", "a", "c", "t", "\"", ":", " ", "\"", "e",
          "m", "a", "i", "l", "\"", ",", " ", "\"", "s", "a", "l", "t", "\"",
          ":", " ", "\"", "s", "\"", "}">>)

VAL_SALT_NUMBER ==
    Str(<<"{", "\"", "r", "e", "d", "a", "c", "t", "\"", ":", " ", "[", "\"",
          "e", "m", "a", "i", "l", "\"", "]", ",", " ", "\"", "s", "a", "l",
          "t", "\"", ":", " ", "7", "}">>)

\* parameter values: the stack's, and ones of other shapes
StoreValues ==
    {VAL_STACK, VAL_EMAIL_ONLY, VAL_NOT_JSON, VAL_ARRAY, VAL_EMPTY_OBJECT, VAL_NO_SALT,
     VAL_REDACT_NUMBER, VAL_REDACT_STR, VAL_SALT_NUMBER}

(***************************************************************************)
(* _load_rules, the try block: one get_parameter call, json.loads, the     *)
(* isinstance check, and the fallback for every exception.                 *)
(***************************************************************************)
\* frames is the number of frames on the stack in _load_rules: its own, that of
\* anonymise, and those of the server under them
FetchRules(st, frames) ==
    IF ~st.available THEN FallbackRules
    ELSE LET parsed == json_loads(st.value, frames)
         IN  IF parsed.ok /\ parsed.value.t = "dict" THEN parsed.value
             ELSE FallbackRules

(***************************************************************************)
(* _salted_hash: SHA-256 over (salt + text).encode("utf-8").  The digest   *)
(* is a term over the hashed string: equal strings give equal digests.     *)
(* salt + text raises TypeError for a salt that is no str, and encode      *)
(* raises UnicodeEncodeError for a surrogate code point.                   *)
(***************************************************************************)
Sha256Hex(data) == [sha256 |-> data]

NoDigest == Sha256Hex(<<>>)

Surrogates == 55296..57343

salted_hash(text, salt) ==
    IF salt.t = "str" /\ \A i \in 1..Len(salt.s \o text) : (salt.s \o text)[i] \notin Surrogates
    THEN [raised |-> FALSE, digest |-> Sha256Hex(salt.s \o text)]
    ELSE [raised |-> TRUE, digest |-> NoDigest]

(***************************************************************************)
(* _write_audit: the item, with the time read when it is built.            *)
(***************************************************************************)
\* AuditItem with a ttl of 7 * 24 * 60: minutes taken for seconds
AuditItem_TtlInMinutes(request_id, cv_hash, rule_counts, now) ==
    [requestId  |-> request_id,
     ts         |-> now,
     ttl        |-> now + 7 * 24 * 60,
     cvHash     |-> cv_hash,
     ruleCounts |-> rule_counts]

AuditItem(request_id, cv_hash, rule_counts, now) ==
    [requestId  |-> request_id,
     ts         |-> now,
     ttl        |-> now + AUDIT_TTL_SECONDS,
     cvHash     |-> cv_hash,
     ruleCounts |-> rule_counts]

(***************************************************************************)
(* safe_log_value                                                          *)
(***************************************************************************)
REDACTED_FREE_TEXT ==
    Str(<<"[", "R", "E", "D", "A", "C", "T", "E", "D", "_",
          "F", "R", "E", "E", "_", "T", "E", "X", "T", "]">>)

safe_log_value(value) ==
    IF Len(value) > SAFE_LOG_MAX_LEN THEN REDACTED_FREE_TEXT
    ELSE redact_phone(redact_email(value))

(***************************************************************************)
(* str.strip()                                                             *)
(***************************************************************************)
RECURSIVE LStrip(_)
LStrip(s) == IF s # <<>> /\ Head(s) \in Whitespace THEN LStrip(Tail(s)) ELSE s

RECURSIVE RStrip(_)
RStrip(s) ==
    IF s # <<>> /\ s[Len(s)] \in Whitespace THEN RStrip(SubSeq(s, 1, Len(s) - 1)) ELSE s

Strip(s) == RStrip(LStrip(s))

(***************************************************************************)
(* HTTP responses and log lines.                                           *)
(***************************************************************************)
Body(keys, request_id, anonymised, rules_applied, detail, ok) ==
    [keys |-> keys, requestId |-> request_id, anonymisedText |-> anonymised,
     rulesApplied |-> rules_applied, detail |-> detail, ok |-> ok]

NoBody == Body({}, 0, <<>>, PyNone, "", FALSE)

HealthBody == Body({"ok"}, 0, <<>>, PyNone, "", TRUE)

ErrorBody(detail) == Body({"detail"}, 0, <<>>, PyNone, detail, FALSE)

ResultBody(request_id, anonymised, rules_applied) ==
    Body({"requestId", "anonymisedText", "rulesApplied"},
         request_id, anonymised, rules_applied, "", FALSE)

LogLine(msg, request_id, rules_applied, rule_counts, duration_ms, written, origin) ==
    [msg |-> msg, requestId |-> request_id, rulesApplied |-> rules_applied,
     ruleCounts |-> rule_counts, durationMs |-> duration_ms,
     auditWritten |-> written, origin |-> origin]

HealthLog == LogLine("health_check", 0, PyNone, NoCounts, 0, FALSE, <<>>)

(***************************************************************************)
(* GET /health                                                             *)
(***************************************************************************)
HealthOutcome(cache, loadedAt, calls) ==
    [status |-> 200, body |-> HealthBody, log |-> <<HealthLog>>,
     cache |-> cache, loaded_at |-> loadedAt, calls |-> calls]

\* GET /health with a probe of the rules store
health_DeepCheck(cache, loadedAt) ==
    IF Truthy(cache) /\ LessThanSeconds(loadedAt, clock, RULES_CACHE_SECONDS)
    THEN HealthOutcome(cache, loadedAt, 0)
    ELSE HealthOutcome(FetchRules(STORE_UNAVAILABLE, 5), clock, 1)

health(cache, loadedAt) == HealthOutcome(cache, loadedAt, 0)

(***************************************************************************)
(* The service.  A request is the JSON body: has_text tells whether it     *)
(* holds a `text` string.                                                  *)
(***************************************************************************)
serviceVars ==
    <<rules_cache, rules_cache_loaded_at, audit_table_name, frontend_origin,
      clock, table>>

applyVars == <<in_text, in_redact, pass, res1, res2>>

concVars == <<inv, writers, served>>

vars == <<serviceVars, applyVars, concVars>>

NoRequest == [has_text |-> FALSE, text |-> <<>>]

NoResult == [raised |-> FALSE, out |-> <<>>, counts |-> NoCounts]

\* the request bodies of the model
TEXT_BLANK == Str(<<" ", "\t">>)

TEXT_CV == Str(<<" ", "a", "@", "b", ".", "c", "c", "\n">>)

Requests ==
    {NoRequest} \cup
    {[has_text |-> TRUE, text |-> t] : t \in {TEXT_BLANK, TEXT_CV}}

\* the states a fetch finds the rules store in
StoreStates == {STORE_UNAVAILABLE} \cup {Holding(v) : v \in {VAL_STACK, VAL_EMPTY_OBJECT, VAL_REDACT_NUMBER}}

\* the settings of the process: AUDIT_TABLE_NAME and FRONTEND_ORIGIN
Settings ==
    {[table_name |-> "", origin |-> ORIGIN_ANY],
     [table_name |-> "cv-audit", origin |-> ORIGIN_STACK]}

\* the frames the server has on the stack when it calls the handler: they are the
\* server's, not this program's.  A handler that is a plain def runs on a thread of
\* the pool, which has the three frames of threading.Thread at its bottom.
ServerFrames == 3..MaxServerFrames

\* the time that passes in one step while a request runs: just under 5.4 seconds
RUN_STEP == Time(5, 1677721)

\* the steps of time between requests: to just before the cached document expires,
\* and to its expiry
PauseSteps == {Time(RULES_CACHE_SECONDS - 1, 0), Time(RULES_CACHE_SECONDS, 0)}

\* a request that has not arrived
IdleInvocation ==
    [pc |-> "idle", rid |-> 0, op |-> "none", req |-> NoRequest, text |-> <<>>,
     start |-> NEVER_LOADED, now |-> NEVER_LOADED, audit_at |-> NEVER_LOADED,
     item |-> AuditItem(0, NoDigest, NoCounts, 0),
     found |-> NoRules, found_fresh |-> FALSE, found_by |-> 0, seen_doc_by |-> 0, mixed |-> FALSE,
     st |-> STORE_UNAVAILABLE, rules |-> NoRules, calls |-> 0, red |-> NoResult,
     request_id |-> 0, audits |-> 0, puts |-> 0, written |-> FALSE,
     status |-> 0, body |-> NoBody, log |-> <<>>, trace |-> <<>>]

\* the threads of the pool that run the handler, in the order they are taken: two,
\* which is what a race on the cache takes
ThreadOrder == <<"t1", "t2">>

Invocations == {ThreadOrder[k] : k \in DOMAIN ThreadOrder}

IdleConc ==
    /\ inv = [i \in Invocations |-> IdleInvocation]
    /\ writers = [doc |-> 0, at |-> 0, when |-> NEVER_LOADED]
    /\ served = 0

IdleApply ==
    /\ in_text = <<>>
    /\ in_redact = PyList(<<>>)
    /\ pass = 0
    /\ res1 = NoResult
    /\ res2 = NoResult

InitService ==
    /\ rules_cache = NoRules
    /\ rules_cache_loaded_at = NEVER_LOADED
    /\ \E c \in Settings : audit_table_name = c.table_name /\ frontend_origin = c.origin
    /\ clock = Time(Epoch, 0)
    /\ table = {}

Init == InitService /\ IdleApply /\ IdleConc

Goes(i, next) == inv' = [inv EXCEPT ![i] = next]

Free(i) == inv[i].pc \in {"idle", "done"}

\* a request is taken by the first free thread, which forgets its last request
MayArrive(i) ==
    /\ served < MaxRequests
    /\ Free(i)
    /\ \A k \in DOMAIN ThreadOrder :
          ThreadOrder[k] = i => \A j \in 1..(k - 1) : ~Free(ThreadOrder[j])

Arrived(op) == [IdleInvocation EXCEPT !.rid = served + 1, !.op = op]

\* GET /health: the log line and the response, in one step
GetHealth(i) ==
    /\ MayArrive(i)
    /\ LET o == health(rules_cache, rules_cache_loaded_at)
       IN  /\ rules_cache' = o.cache
           /\ rules_cache_loaded_at' = o.loaded_at
           /\ Goes(i, [Arrived("health") EXCEPT !.pc = "done",
                                     !.calls = o.calls, !.status = o.status,
                                     !.body = o.body, !.log = o.log])
    /\ served' = served + 1
    /\ UNCHANGED <<audit_table_name, frontend_origin, clock, table,
                   applyVars, writers>>

\* POST /anonymise arrives.  A body without a text is refused by the request model
\* before the handler runs; else the handler reads the clock (start), and a text
\* that is blank after strip() gets 400.
Begin(i) ==
    /\ MayArrive(i)
    /\ \E req \in Requests :
          LET text == Strip(req.text)
              arrived == [Arrived("anonymise") EXCEPT
                            !.req = req,
                            !.start = IF req.has_text THEN clock ELSE NEVER_LOADED]
          IN  Goes(i, IF ~req.has_text
                      THEN [arrived EXCEPT !.pc = "done", !.status = 422,
                                           !.body = ErrorBody("Field required")]
                      ELSE IF text = <<>>
                      THEN [arrived EXCEPT !.pc = "done", !.status = 400,
                                           !.body = ErrorBody("text is required")]
                      ELSE [arrived EXCEPT !.pc = "read_clock", !.text = text])
    /\ served' = served + 1
    /\ UNCHANGED <<serviceVars, applyVars, writers>>

\* _load_rules begins: now = time.time()
ReadClock(i) ==
    /\ inv[i].pc = "read_clock"
    /\ Goes(i, [inv[i] EXCEPT !.pc = "check_cache", !.now = clock])
    /\ UNCHANGED <<serviceVars, applyVars, writers, served>>

\* `if _rules_cache`: the first read of the slot.  found_fresh records whether the
\* slot holds the document of a refresh that finished before this call was made,
\* less than RULES_CACHE_SECONDS before; found and found_by that document and the
\* request that stored it.
CheckCache(i) ==
    /\ inv[i].pc = "check_cache"
    /\ LET fresh == /\ rules_cache.t = "dict"
                    /\ writers.doc = writers.at
                    /\ NotAfter(writers.when, inv[i].now)
                    /\ LessThanSeconds(writers.when, inv[i].now, RULES_CACHE_SECONDS)
           seen  == [inv[i] EXCEPT !.found_fresh = fresh,
                                   !.found = IF fresh THEN rules_cache ELSE NoRules,
                                   !.found_by = IF fresh THEN writers.doc ELSE 0]
       IN  Goes(i, IF Truthy(rules_cache)
                   THEN [seen EXCEPT !.pc = "check_age", !.seen_doc_by = writers.doc]
                   ELSE [seen EXCEPT !.pc = "fetch"])
    /\ UNCHANGED <<serviceVars, applyVars, writers, served>>

\* `and (now - _rules_cache_loaded_at) < RULES_CACHE_SECONDS`: the read of the load
\* time.  mixed records that the load time read here was written by another
\* refresh than the document read just before.
CheckAge(i) ==
    /\ inv[i].pc = "check_age"
    /\ Goes(i, [inv[i] EXCEPT
                  !.pc = IF LessThanSeconds(rules_cache_loaded_at, inv[i].now,
                                            RULES_CACHE_SECONDS)
                         THEN "return_cached" ELSE "fetch",
                  !.mixed = (inv[i].seen_doc_by # writers.at),
                  !.seen_doc_by = 0])
    /\ UNCHANGED <<serviceVars, applyVars, writers, served>>

\* `return _rules_cache`: the second read of the slot
ReturnCached(i) ==
    /\ inv[i].pc = "return_cached"
    /\ Goes(i, [inv[i] EXCEPT !.pc = "redact", !.rules = rules_cache,
                              !.trace = Append(@, "rules")])
    /\ UNCHANGED <<serviceVars, applyVars, writers, served>>

\* the try block: one get_parameter call, the fallback for every exception
Fetch(i) ==
    /\ inv[i].pc = "fetch"
    /\ \E st \in StoreStates, below \in ServerFrames :
          Goes(i, [inv[i] EXCEPT !.pc = "write_cache", !.st = st,
                                 !.rules = FetchRules(st, below + 2), !.calls = @ + 1])
    /\ UNCHANGED <<serviceVars, applyVars, writers, served>>

\* a refresh that updates the cached dict in place and leaves its old entries behind
StoreRules_InPlace(cache, rules) ==
    IF cache.t = "dict" /\ rules.t = "dict"
    THEN PyDict(cache.items \o rules.items)
    ELSE rules

\* _rules_cache = rules: the slot takes the new document, whatever it held
StoreRules(cache, rules) == rules

\* _rules_cache = rules
WriteCache(i) ==
    /\ inv[i].pc = "write_cache"
    /\ rules_cache' = StoreRules(rules_cache, inv[i].rules)
    /\ writers' = [writers EXCEPT !.doc = inv[i].rid]
    /\ Goes(i, [inv[i] EXCEPT !.pc = "write_loaded_at"])
    /\ UNCHANGED <<rules_cache_loaded_at, audit_table_name, frontend_origin,
                   clock, table, applyVars, served>>

\* _rules_cache_loaded_at = now
WriteLoadedAt(i) ==
    /\ inv[i].pc = "write_loaded_at"
    /\ rules_cache_loaded_at' = inv[i].now
    /\ writers' = [writers EXCEPT !.at = inv[i].rid, !.when = clock]
    /\ Goes(i, [inv[i] EXCEPT !.pc = "redact", !.trace = Append(@, "rules")])
    /\ UNCHANGED <<rules_cache, audit_table_name, frontend_origin,
                   clock, table, applyVars, served>>

\* rules.get and _apply_redaction; an exception ends the request with 500
Redact(i) ==
    /\ inv[i].pc = "redact"
    /\ \E red \in {apply_redaction(inv[i].text, RedactOf(inv[i].rules))} :
           Goes(i, [inv[i] EXCEPT !.pc = IF red.raised THEN "respond" ELSE "new_id",
                                  !.red = red,
                                  !.status = IF red.raised THEN 500 ELSE 0,
                                  !.trace = Append(@, "redaction")])
    /\ UNCHANGED <<serviceVars, applyVars, writers, served>>

\* request_id = str(uuid.uuid4()): an id no other request has
NewId(i) ==
    /\ inv[i].pc = "new_id"
    /\ Goes(i, [inv[i] EXCEPT !.pc = "audit", !.request_id = inv[i].rid,
                              !.trace = Append(@, "requestId")])
    /\ UNCHANGED <<serviceVars, applyVars, writers, served>>

\* _salted_hash, and _write_audit as far as the item: nothing without a table name,
\* else now = int(time.time()) and the item.  An exception of the hash ends the
\* request with 500.
Audit(i) ==
    /\ inv[i].pc = "audit"
    /\ \E hashed \in {salted_hash(inv[i].text, SaltOf(inv[i].rules))} :
          Goes(i, IF hashed.raised
                  THEN [inv[i] EXCEPT !.pc = "respond", !.status = 500,
                                      !.trace = Append(@, "audit")]
                  ELSE IF audit_table_name = ""
                  THEN [inv[i] EXCEPT !.pc = "log", !.audits = @ + 1,
                                      !.trace = Append(@, "audit")]
                  ELSE [inv[i] EXCEPT !.pc = "put_item", !.audits = @ + 1,
                                      !.audit_at = clock,
                                      !.item = AuditItem(inv[i].request_id, hashed.digest,
                                                         inv[i].red.counts,
                                                         IntSeconds(clock)),
                                      !.trace = Append(@, "audit")])
    /\ UNCHANGED <<serviceVars, applyVars, writers, served>>

\* table.put_item(Item=item): the table takes the item, or the call raises, which
\* nothing catches: the request ends with 500
PutItem(i) ==
    /\ inv[i].pc = "put_item"
    /\ \E up \in BOOLEAN :
          /\ table' = IF up THEN table \cup {inv[i].item} ELSE table
          /\ Goes(i, [inv[i] EXCEPT !.pc = IF up THEN "log" ELSE "respond",
                                    !.puts = @ + 1,
                                    !.written = up,
                                    !.status = IF up THEN 0 ELSE 500])
    /\ UNCHANGED <<rules_cache, rules_cache_loaded_at, audit_table_name,
                   frontend_origin, clock, applyVars, writers, served>>

\* logger.info("anonymise_complete", ...)
Log(i) ==
    /\ inv[i].pc = "log"
    /\ Goes(i, [inv[i] EXCEPT
                  !.pc = "respond",
                  !.log = <<LogLine("anonymise_complete", inv[i].request_id,
                                    RedactOf(inv[i].rules), inv[i].red.counts,
                                    DurationMs(inv[i].start, clock), inv[i].written,
                                    safe_log_value(frontend_origin))>>,
                  !.trace = Append(@, "log")])
    /\ UNCHANGED <<serviceVars, applyVars, writers, served>>

\* the response: the result with 200, or 500 after an exception
Respond(i) ==
    /\ inv[i].pc = "respond"
    /\ Goes(i, [inv[i] EXCEPT
                  !.pc = "done",
                  !.status = IF @ = 0 THEN 200 ELSE @,
                  !.body = IF inv[i].status = 0
                           THEN ResultBody(inv[i].request_id, inv[i].red.out,
                                           RedactOf(inv[i].rules))
                           ELSE NoBody,
                  !.trace = Append(@, "response")])
    /\ UNCHANGED <<serviceVars, applyVars, writers, served>>

Step(i) ==
    \/ GetHealth(i) \/ Begin(i) \/ ReadClock(i) \/ CheckCache(i) \/ CheckAge(i) \/ ReturnCached(i)
    \/ Fetch(i) \/ WriteCache(i) \/ WriteLoadedAt(i) \/ Redact(i) \/ NewId(i)
    \/ Audit(i) \/ PutItem(i) \/ Log(i) \/ Respond(i)

\* time passes: a RUN_STEP while requests run, none beyond the function's timeout,
\* and one of the PauseSteps between requests
Tick ==
    \E d \in (IF \E i \in Invocations : ~Free(i) THEN {RUN_STEP} ELSE PauseSteps) :
        /\ NotAfter(TimeAfter(clock, d), Time(Epoch + MaxElapsed, 0))
        /\ \A i \in Invocations :
              Free(i) \/ LessThanSeconds(inv[i].start, TimeAfter(clock, d),
                                         FUNCTION_TIMEOUT_SECONDS)
        /\ clock' = TimeAfter(clock, d)
        /\ UNCHANGED <<rules_cache, rules_cache_loaded_at, audit_table_name,
                       frontend_origin, table, applyVars, concVars>>

Next == (\E i \in Invocations : Step(i)) \/ Tick

Spec == Init /\ [][Next]_vars

(***************************************************************************)
(* The redaction specification: _apply_redaction on a text built from at   *)
(* most MaxFrags fragments, then once more on its own output.              *)
(***************************************************************************)
\* four ARABIC-INDIC digits, which \d takes as it takes 0-9
ARABIC_DIGITS == <<1633, 1634, 1635, 1636>>

Fragments ==
    {Str(<<"a", "@", "b", ".", "c", "c">>),
     Str(<<"1", "2", "3", "4", "5", "6", "7", "8", "9">>),
     ARABIC_DIGITS,
     Str(<<" ">>), Str(<<"-">>), Str(<<"+">>), Str(<<"x">>), Str(<<".">>)}

RECURSIVE TextsOf(_)
TextsOf(n) ==
    IF n = 0 THEN {<<>>}
    ELSE LET shorter == TextsOf(n - 1)
         IN  shorter \cup {t \o f : t \in shorter, f \in Fragments}

NAME == Str(<<"n", "a", "m", "e">>)

\* a list of rule identifiers
RuleList(ids) == PyList([k \in DOMAIN ids |-> PyStr(ids[k])])

RuleLists ==
    {RuleList(ids) : ids \in {<<>>, <<EMAIL>>, <<PHONE>>, <<EMAIL, PHONE>>, <<PHONE, EMAIL>>,
                              <<EMAIL, NAME>>, <<NAME, PHONE>>}}

\* the values the handler passes as `redact`: lists of rule identifiers, and
\* rules.get("redact", ...) of every document a refresh can give
RedactValues ==
    RuleLists \cup {RedactOf(FetchRules(Holding(v), below + 2)) :
                      v \in StoreValues, below \in ServerFrames}

\* the process before its first request
IdleService ==
    /\ rules_cache = NoRules
    /\ rules_cache_loaded_at = NEVER_LOADED
    /\ audit_table_name = ""
    /\ frontend_origin = ORIGIN_ANY
    /\ clock = Time(Epoch, 0)
    /\ table = {}

InitApply ==
    /\ IdleService
    /\ IdleConc
    /\ in_text \in TextsOf(MaxFrags)
    /\ in_redact \in RedactValues
    /\ pass = 0
    /\ res1 = NoResult
    /\ res2 = NoResult

ApplyFirst ==
    /\ pass = 0
    /\ pass' = 1
    /\ res1' = apply_redaction(in_text, in_redact)
    /\ UNCHANGED <<in_text, in_redact, res2, serviceVars, concVars>>

ApplyAgain ==
    /\ pass = 1
    /\ pass' = 2
    /\ res2' = apply_redaction(res1.out, in_redact)
    /\ UNCHANGED <<in_text, in_redact, res1, serviceVars, concVars>>

NextApply == ApplyFirst \/ ApplyAgain

SpecApply == InitApply /\ [][NextApply]_vars

(***************************************************************************)
(* Claims about the redaction engine, under SpecApply.                     *)
(***************************************************************************)
Recognized == {"email", "phone"}

RuleId(r) == IF r = "email" THEN EMAIL ELSE PHONE

\* the recognized identifiers of the rule list
EnabledRules == {r \in Recognized : InList(RuleId(r), in_redact)}

\* the text the phone rule works on: after the email rule, if that is enabled
AfterEmail == IF "email" \in EnabledRules THEN redact_email(in_text) ELSE in_text

Indicator(changed) == IF changed THEN 1 ELSE 0

\* C7: apply returns without error, for every text and rule list, a pair whose
\* rule_counts has exactly the recognized identifiers of the list as keys, each with
\* 1 if that rule's substitution changed the text and 0 otherwise.
C7_CountsAreIndicators ==
    (pass >= 1 /\ in_redact.t = "list") =>
        /\ ~res1.raised
        /\ DOMAIN res1.counts = EnabledRules
        /\ "email" \in EnabledRules =>
               res1.counts["email"] = Indicator(redact_email(in_text) # in_text)
        /\ "phone" \in EnabledRules =>
               res1.counts["phone"] = Indicator(redact_phone(AfterEmail) # AfterEmail)

TwoEmails == Str(<<"a", "@", "b", ".", "c", "c", " ", "a", "@", "b", ".", "c", "c">>)

\* two matches of the email rule and an unrecognized identifier: one entry, of 1
C7_Witness ==
    /\ pass = 1
    /\ in_text = TwoEmails
    /\ in_redact = RuleList(<<EMAIL, NAME>>)
    /\ res1.out = EMAIL_SENTINEL \o Str(<<" ">>) \o EMAIL_SENTINEL
    /\ DOMAIN res1.counts = {"email"}
    /\ res1.counts["email"] = 1

\* a run of n or more consecutive digits
HasDigitRun(s, n) == \E i \in 1..Len(s) : RunLen(s, i, Digits) >= n

\* a stretch of n or more characters, each a digit, whitespace, a parenthesis, a
\* dot or a hyphen, that starts and ends with a digit
HasPhoneSpan(s, n) ==
    \E i \in 1..Len(s) : \E j \in i..Len(s) :
        /\ j - i + 1 >= n
        /\ s[i] \in Digits
        /\ s[j] \in Digits
        /\ \A m \in i..j : s[m] \in PhoneBodyChars

PhoneLeftAlone ==
    /\ res1.counts["phone"] = 0
    /\ res1.out = AfterEmail

\* C8 as claimed: a text with no run of 8 or more consecutive digits gets
\* rule_counts["phone"] = 0 and is unchanged apart from the email substitution.
C8_NoDigitRunNoPhone ==
    (pass >= 1 /\ "phone" \in EnabledRules /\ ~HasDigitRun(in_text, 8)) => PhoneLeftAlone

\* C8 as amended: a text with no stretch of 9 or more characters, each a digit,
\* whitespace, a parenthesis, a dot or a hyphen, that starts and ends with a digit
\* gets rule_counts["phone"] = 0 and is unchanged apart from the email substitution.
C8_NoPhoneSpanNoPhone ==
    (pass >= 1 /\ "phone" \in EnabledRules /\ ~HasPhoneSpan(in_text, 9)) => PhoneLeftAlone

\* digits next to an address: the email rule acts, the phone rule does not
C8_Witness ==
    /\ pass = 1
    /\ in_redact = RuleList(<<EMAIL, PHONE>>)
    /\ in_text = ARABIC_DIGITS \o Str(<<" ", "a", "@", "b", ".", "c", "c", "-">>)
    /\ ~HasPhoneSpan(in_text, 9)
    /\ res1.counts["phone"] = 0
    /\ res1.counts["email"] = 1
    /\ res1.out = ARABIC_DIGITS \o Str(<<" ">>) \o EMAIL_SENTINEL \o Str(<<"-">>)

\* C9: for every non-empty text, applying ["email", "phone"] to the output of
\* applying it returns that output unchanged, with both rule_counts 0.
C9_Idempotent ==
    (pass = 2 /\ in_text # <<>> /\ in_redact = RuleList(<<EMAIL, PHONE>>)) =>
        /\ ~res2.raised
        /\ res2.out = res1.out
        /\ res2.counts = RuleCounts({"email", "phone"}, 0, 0)

\* both sentinels are in the text the second pass reads
C9_Witness ==
    /\ pass = 2
    /\ in_redact = RuleList(<<EMAIL, PHONE>>)
    /\ in_text = Str(<<"a", "@", "b", ".", "c", "c", " ",
                       "1", "2", "3", "4", "5", "6", "7", "8", "9">>)
    /\ res1.out = EMAIL_SENTINEL \o Str(<<" ">>) \o PHONE_SENTINEL
    /\ res1.counts = RuleCounts({"email", "phone"}, 1, 1)
    /\ res2.out = res1.out

(***************************************************************************)
(* Claims about the service, under Spec.  They read inv[i], the request    *)
(* thread i is running or has just answered.                               *)
(***************************************************************************)
\* the steps of _load_rules
LoadSteps ==
    {"read_clock", "check_cache", "check_age", "return_cached", "fetch", "write_cache", "write_loaded_at"}

\* _load_rules has returned to the request of thread i
Loaded(i) == inv[i].trace # <<>>

\* no request is inside _load_rules
RefreshesFinished == \A i \in Invocations : inv[i].pc \notin LoadSteps

Done(i) == inv[i].pc = "done"

\* a request body without a text, or with a blank one
Blank(req) == ~req.has_text \/ Strip(req.text) = <<>>

\* the request of thread i is a POST /anonymise with a text that is not blank
NonBlankPost(i) == inv[i].op = "anonymise" /\ ~Blank(inv[i].req)

\* the request of thread i is a POST /anonymise without a text, or with a blank one
BlankPost(i) == inv[i].op = "anonymise" /\ Blank(inv[i].req)

\* an object with a `redact` array and a `salt` string
WellShaped(v) ==
    /\ v.t = "dict"
    /\ DictGet(v, KEY_REDACT, PyNone).t = "list"
    /\ DictGet(v, KEY_SALT, PyNone).t = "str"

\* a refresh from the store in state st fails: the store is unavailable, the
\* value is no JSON that json.loads takes, or it is not well shaped
RefreshFails(st) ==
    \/ ~st.available
    \/ \E below \in ServerFrames :
          \E parsed \in {json_loads(st.value, below + 2)} :
              ~parsed.ok \/ ~WellShaped(parsed.value)

\* put_item of the request of thread i raised
SinkRaised(i) == inv[i].puts = 1 /\ ~inv[i].written

\* the records of the request of thread i
ItemsOf(i) == {item \in table : item.requestId = inv[i].rid}

\* the request of thread i has assigned neither the cache slot nor its load time
WroteNoCache(i) == writers.doc # inv[i].rid /\ writers.at # inv[i].rid

OkResponse(i) ==
    /\ inv[i].status = 200
    /\ inv[i].body.keys = {"requestId", "anonymisedText", "rulesApplied"}
    /\ inv[i].body.requestId = inv[i].rid

\* C1: a POST /anonymise with a non-blank text returns 200 with requestId,
\* anonymisedText and rulesApplied whatever the audit sink does (none configured,
\* write succeeds, write raises); the audit failure shows only as auditWritten =
\* false in the log line.  Stated for the requests that get as far as the audit
\* commit.
C1_AuditFailureNotSurfaced ==
    \A i \in Invocations :
        (Done(i) /\ NonBlankPost(i) /\ inv[i].audits = 1) =>
            /\ OkResponse(i)
            /\ Len(inv[i].log) = 1
            /\ inv[i].log[1].auditWritten = inv[i].written

\* C2: whenever a refresh fails (store unavailable, no valid JSON, not an object
\* with a `redact` array and a `salt` string) get_rules returns the fallback
\* document and stores it in the cache slot.
C2_FailedRefreshGivesFallback ==
    \A i \in Invocations :
        (inv[i].calls = 1 /\ RefreshFails(inv[i].st)) =>
            /\ inv[i].rules = FallbackRules
            /\ writers.doc = inv[i].rid => rules_cache = FallbackRules

\* C3: when the rules document is unavailable or malformed, a POST /anonymise with
\* a non-blank text returns 200 and is processed with the fallback rule set.
\* Stated for the requests whose audit write does not raise.
C3_DegradedRulesNotSurfaced ==
    \A i \in Invocations :
        (/\ Done(i) /\ NonBlankPost(i)
         /\ inv[i].calls = 1 /\ RefreshFails(inv[i].st)
         /\ ~SinkRaised(i)) =>
            /\ OkResponse(i)
            /\ inv[i].body.rulesApplied = FallbackRedact

\* C4: once a refresh has stored a document in the cache, a get_rules call made less
\* than 60 seconds after that refresh returns the cached document unchanged and
\* makes no store call.  "Unchanged" is stated for the calls during which no other
\* refresh assigns the slot.
C4_FreshCacheNotRefetched ==
    \A i \in Invocations :
        (Loaded(i) /\ inv[i].found_fresh) =>
            /\ inv[i].calls = 0
            /\ writers.doc = inv[i].found_by => inv[i].rules = inv[i].found

\* a request arrives at thread i
Arrives(i) == inv'[i].rid # inv[i].rid

CacheAndTableUnchanged == UNCHANGED <<rules_cache, rules_cache_loaded_at, table>>

\* C5: a POST /anonymise whose text is missing, or blank after trimming, fails with
\* 400 and a generic message; it fetches no rules, changes no cache state and writes
\* no audit record.
C5_BlankTextIs400 ==
    /\ [](\A i \in Invocations :
            BlankPost(i) =>
                /\ Done(i)
                /\ inv[i].status = 400
                /\ inv[i].body = ErrorBody("text is required")
                /\ inv[i].calls = 0
                /\ inv[i].puts = 0
                /\ WroteNoCache(i)
                /\ ItemsOf(i) = {})
    /\ [][\A i \in Invocations :
            (Arrives(i) /\ inv'[i].op = "anonymise" /\ Blank(inv'[i].req))
                => CacheAndTableUnchanged]_vars

\* C6: GET /health returns 200 with {"ok": true} in every state, with no store
\* fetch, no audit write and no change to the rules cache.
C6_HealthAlwaysOk ==
    /\ [](\A i \in Invocations :
            inv[i].op = "health" =>
                /\ Done(i)
                /\ inv[i].status = 200
                /\ inv[i].body.keys = {"ok"}
                /\ inv[i].body.ok = TRUE
                /\ inv[i].calls = 0
                /\ inv[i].puts = 0
                /\ WroteNoCache(i)
                /\ ItemsOf(i) = {})
    /\ [][\A i \in Invocations :
            (Arrives(i) /\ inv'[i].op = "health") => CacheAndTableUnchanged]_vars

\* a health check has been answered, the other thread's request has failed at the
\* audit sink, and the cached document has expired
C6_Witness ==
    \E i, j \in Invocations :
        /\ inv[i].op = "health"
        /\ inv[i].status = 200
        /\ Done(j) /\ SinkRaised(j)
        /\ rules_cache.t = "dict"
        /\ ~LessThanSeconds(rules_cache_loaded_at, clock, RULES_CACHE_SECONDS)


SEVEN_DAYS == 604800

AuditFields == {"requestId", "ts", "ttl", "cvHash", "ruleCounts"}

\* C10: every persisted record holds only requestId, timestamp, ttl, cvHash and
\* ruleCounts; its requestId is the one returned in the response of its request,
\* its ttl is its timestamp plus 604800, and no field holds the request text, the
\* redacted text or the salt: cvHash is the digest of salt + text, ruleCounts maps
\* rule names to 0 or 1.
C10_AuditRecordMinimal ==
    /\ \A item \in table :
          /\ DOMAIN item = AuditFields
          /\ item.requestId \in 1..served
          /\ item.ttl = item.ts + SEVEN_DAYS
          /\ DOMAIN item.cvHash = {"sha256"}
          /\ DOMAIN item.ruleCounts \subseteq Recognized
          /\ \A k \in DOMAIN item.ruleCounts : item.ruleCounts[k] \in {0, 1}
          /\ \A other \in table : other.requestId = item.requestId => other = item
    /\ \A i \in Invocations :
          /\ inv[i].written <=> ItemsOf(i) # {}
          /\ \A item \in ItemsOf(i) :
                /\ item.requestId = inv[i].request_id
                /\ item.ts = IntSeconds(inv[i].audit_at)
                /\ IntSeconds(inv[i].start) <= item.ts /\ item.ts <= IntSeconds(clock)
                /\ item.cvHash = Sha256Hex(SaltOf(inv[i].rules).s \o inv[i].text)
                /\ item.ruleCounts = inv[i].red.counts
                /\ Done(i) => inv[i].status = 200 /\ inv[i].body.requestId = item.requestId

\* two records in the table, the second written by a request that has been answered
\* with a text that the email rule changed, seconds after that request began
C10_Witness ==
    /\ Cardinality(table) = 2
    /\ \E i \in Invocations :
          /\ Done(i)
          /\ inv[i].rid = 2
          /\ inv[i].body.anonymisedText = EMAIL_SENTINEL
          /\ \E item \in ItemsOf(i) :
                /\ item.ruleCounts = RuleCounts({"email", "phone"}, 1, 0)
                /\ item.ts > IntSeconds(inv[i].start)

(***************************************************************************)
(* Claims about the requests that run at once.                             *)
(***************************************************************************)
\* the documents _load_rules can build in one piece: a fetched dict, or the fallback
WholeDocs == {FetchRules(st, below + 2) : st \in StoreStates, below \in ServerFrames}

\* C11: under every interleaving of requests that race to refresh the cache, the
\* slot holds nothing or a whole document, every document _load_rules returns is a
\* whole document, and once no refresh is running the slot holds the document of
\* the request that wrote it last.
C11_CacheNeverCorrupted ==
    /\ rules_cache \in WholeDocs \cup {NoRules}
    /\ \A i \in Invocations :
          /\ Loaded(i) => inv[i].rules \in WholeDocs
          /\ (RefreshesFinished /\ inv[i].rid # 0 /\ writers.doc = inv[i].rid)
                => rules_cache = inv[i].rules

\* two requests raced, fetched different documents, and the later writer's is kept
C11_Witness ==
    \E i, j \in Invocations :
        /\ i # j
        /\ Done(i) /\ Done(j)
        /\ inv[i].calls = 1 /\ inv[j].calls = 1
        /\ inv[i].found_by = 0 /\ inv[j].found_by = 0
        /\ inv[i].rules # inv[j].rules
        /\ writers.doc = inv[j].rid
        /\ writers.at = inv[i].rid
        /\ rules_cache = inv[j].rules

\* C12: the cached document and its load time are replaced together: no request
\* reads a cached document together with a load time that another refresh (or none)
\* wrote, and once no refresh is running the load time in the cache was written by
\* the request that wrote the document.
C12_DocumentAndTimestampTogether ==
    /\ \A i \in Invocations : ~inv[i].mixed
    /\ RefreshesFinished => writers.at = writers.doc

\* the order of the steps of one POST /anonymise
StepOrder == <<"rules", "redaction", "requestId", "audit", "log", "response">>

\* C13: every finished POST /anonymise with a non-blank text took the steps rules
\* lookup, redaction, requestId, hash and audit attempt, log line, response, in this
\* order; it attempted the audit exactly once, and made neither the rules fetch nor
\* the audit write more than once.
C13_StepsInOrderOnce ==
    \A i \in Invocations :
        (Done(i) /\ NonBlankPost(i)) =>
            /\ inv[i].trace = StepOrder
            /\ inv[i].audits = 1
            /\ inv[i].calls <= 1
            /\ inv[i].puts <= 1

====
